---------------------------- MODULE Spec2Model ----------------------------
(***************************************************************************)
(* A model of rss_to_telegram.py: one process invocation ("run") loads the *)
(* configuration and the state file, walks the configured feeds, sends the *)
(* unseen entries that pass the keyword filter and saves the seen          *)
(* identities once at the end.  Runs follow each other; every fetch of a   *)
(* feed URL returns what its publisher serves at that moment.              *)
(*                                                                         *)
(* A string is the sequence of its code points, so that strip, norm,       *)
(* lower, the sorting of keys and substring search are computed as Python  *)
(* computes them, for every character.  None is the value None.            *)
(***************************************************************************)
EXTENDS Integers, Sequences, FiniteSets, TLC

(***************************************************************************)
(* Strings                                                                 *)
(***************************************************************************)

\* The printable ASCII characters in the order of their code points, 32 to
\* 126; literals are written with them.  The grave accent, 96, cannot be
\* written in a string here and stands under its name.
Ascii == <<
    " ", "!", "\"", "#", "$", "%", "&", "'", "(", ")", "*", "+", ",", "-", ".", "/",
    "0", "1", "2", "3", "4", "5", "6", "7", "8", "9", ":", ";", "<", "=", ">", "?",
    "@", "A", "B", "C", "D", "E", "F", "G", "H", "I", "J", "K", "L", "M", "N", "O",
    "P", "Q", "R", "S", "T", "U", "V", "W", "X", "Y", "Z", "[", "\\", "]", "^", "_",
    "grave", "a", "b", "c", "d", "e", "f", "g", "h", "i", "j", "k", "l", "m", "n", "o",
    "p", "q", "r", "s", "t", "u", "v", "w", "x", "y", "z", "{", "|", "}", "~" >>

\* ord(c) of a printable ASCII character.
Ord(c) == 31 + (CHOOSE i \in 1..Len(Ascii) : Ascii[i] = c)

\* The string with the given printable ASCII characters.
S(chars) == [i \in 1..Len(chars) |-> Ord(chars[i])]

\* Python's None where a string is expected, and where a list is expected.
None == <<-1>>

NoneList == << <<-2>> >>

\* "x or ''" for a string or None.
OrEmpty(x) == IF x = None THEN <<>> ELSE x

\* "x or []" for a list of strings or None.
OrEmptyList(x) == IF x = NoneList THEN <<>> ELSE x

\* str(x) for a string or None.
Str(x) == IF x = None THEN S(<<"N", "o", "n", "e">>) ELSE x

\* The characters for which str.isspace() holds; they are the characters
\* that \s matches in a str pattern and that str.strip() removes.
Whitespace ==
    {9, 10, 11, 12, 13, 28, 29, 30, 31, 32, 133, 160, 5760}
        \cup (8192..8202) \cup {8232, 8233, 8239, 8287, 12288}

\* c is in one of the ranges <<first, last>> of the table.
InRanges(c, ranges) ==
    \E i \in 1..Len(ranges) : ranges[i][1] <= c /\ c <= ranges[i][2]

\* str.lower() outside ASCII, from the Unicode data of CPython 3.11: the
\* characters first, first + step, ..., last are lowered by adding delta;
\* the rows are <<first, last, step, delta>>.
LowerRanges == <<
    <<192,214,1,32>>, <<216,222,1,32>>, <<256,302,2,1>>, <<306,310,2,1>>,
    <<313,327,2,1>>, <<330,374,2,1>>, <<376,376,1,-121>>, <<377,381,2,1>>,
    <<385,385,1,210>>, <<386,388,2,1>>, <<390,390,1,206>>, <<391,391,1,1>>,
    <<393,394,1,205>>, <<395,395,1,1>>, <<398,398,1,79>>, <<399,399,1,202>>,
    <<400,400,1,203>>, <<401,401,1,1>>, <<403,403,1,205>>, <<404,404,1,207>>,
    <<406,406,1,211>>, <<407,407,1,209>>, <<408,408,1,1>>, <<412,412,1,211>>,
    <<413,413,1,213>>, <<415,415,1,214>>, <<416,420,2,1>>, <<422,422,1,218>>,
    <<423,423,1,1>>, <<425,425,1,218>>, <<428,428,1,1>>, <<430,430,1,218>>,
    <<431,431,1,1>>, <<433,434,1,217>>, <<435,437,2,1>>, <<439,439,1,219>>,
    <<440,440,1,1>>, <<444,444,1,1>>, <<452,452,1,2>>, <<453,453,1,1>>,
    <<455,455,1,2>>, <<456,456,1,1>>, <<458,458,1,2>>, <<459,475,2,1>>,
    <<478,494,2,1>>, <<497,497,1,2>>, <<498,500,2,1>>, <<502,502,1,-97>>,
    <<503,503,1,-56>>, <<504,542,2,1>>, <<544,544,1,-130>>, <<546,562,2,1>>,
    <<570,570,1,10795>>, <<571,571,1,1>>, <<573,573,1,-163>>, <<574,574,1,10792>>,
    <<577,577,1,1>>, <<579,579,1,-195>>, <<580,580,1,69>>, <<581,581,1,71>>,
    <<582,590,2,1>>, <<880,882,2,1>>, <<886,886,1,1>>, <<895,895,1,116>>,
    <<902,902,1,38>>, <<904,906,1,37>>, <<908,908,1,64>>, <<910,911,1,63>>,
    <<913,929,1,32>>, <<931,939,1,32>>, <<975,975,1,8>>, <<984,1006,2,1>>,
    <<1012,1012,1,-60>>, <<1015,1015,1,1>>, <<1017,1017,1,-7>>, <<1018,1018,1,1>>,
    <<1021,1023,1,-130>>, <<1024,1039,1,80>>, <<1040,1071,1,32>>, <<1120,1152,2,1>>,
    <<1162,1214,2,1>>, <<1216,1216,1,15>>, <<1217,1229,2,1>>, <<1232,1326,2,1>>,
    <<1329,1366,1,48>>, <<4256,4293,1,7264>>, <<4295,4295,1,7264>>, <<4301,4301,1,7264>>,
    <<5024,5103,1,38864>>, <<5104,5109,1,8>>, <<7312,7354,1,-3008>>, <<7357,7359,1,-3008>>,
    <<7680,7828,2,1>>, <<7838,7838,1,-7615>>, <<7840,7934,2,1>>, <<7944,7951,1,-8>>,
    <<7960,7965,1,-8>>, <<7976,7983,1,-8>>, <<7992,7999,1,-8>>, <<8008,8013,1,-8>>,
    <<8025,8031,2,-8>>, <<8040,8047,1,-8>>, <<8072,8079,1,-8>>, <<8088,8095,1,-8>>,
    <<8104,8111,1,-8>>, <<8120,8121,1,-8>>, <<8122,8123,1,-74>>, <<8124,8124,1,-9>>,
    <<8136,8139,1,-86>>, <<8140,8140,1,-9>>, <<8152,8153,1,-8>>, <<8154,8155,1,-100>>,
    <<8168,8169,1,-8>>, <<8170,8171,1,-112>>, <<8172,8172,1,-7>>, <<8184,8185,1,-128>>,
    <<8186,8187,1,-126>>, <<8188,8188,1,-9>>, <<8486,8486,1,-7517>>, <<8490,8490,1,-8383>>,
    <<8491,8491,1,-8262>>, <<8498,8498,1,28>>, <<8544,8559,1,16>>, <<8579,8579,1,1>>,
    <<9398,9423,1,26>>, <<11264,11311,1,48>>, <<11360,11360,1,1>>, <<11362,11362,1,-10743>>,
    <<11363,11363,1,-3814>>, <<11364,11364,1,-10727>>, <<11367,11371,2,1>>, <<11373,11373,1,-10780>>,
    <<11374,11374,1,-10749>>, <<11375,11375,1,-10783>>, <<11376,11376,1,-10782>>, <<11378,11378,1,1>>,
    <<11381,11381,1,1>>, <<11390,11391,1,-10815>>, <<11392,11490,2,1>>, <<11499,11501,2,1>>,
    <<11506,11506,1,1>>, <<42560,42604,2,1>>, <<42624,42650,2,1>>, <<42786,42798,2,1>>,
    <<42802,42862,2,1>>, <<42873,42875,2,1>>, <<42877,42877,1,-35332>>, <<42878,42886,2,1>>,
    <<42891,42891,1,1>>, <<42893,42893,1,-42280>>, <<42896,42898,2,1>>, <<42902,42920,2,1>>,
    <<42922,42922,1,-42308>>, <<42923,42923,1,-42319>>, <<42924,42924,1,-42315>>, <<42925,42925,1,-42305>>,
    <<42926,42926,1,-42308>>, <<42928,42928,1,-42258>>, <<42929,42929,1,-42282>>, <<42930,42930,1,-42261>>,
    <<42931,42931,1,928>>, <<42932,42946,2,1>>, <<42948,42948,1,-48>>, <<42949,42949,1,-42307>>,
    <<42950,42950,1,-35384>>, <<42951,42953,2,1>>, <<42960,42960,1,1>>, <<42966,42968,2,1>>,
    <<42997,42997,1,1>>, <<65313,65338,1,32>>, <<66560,66599,1,40>>, <<66736,66771,1,40>>,
    <<66928,66938,1,39>>, <<66940,66954,1,39>>, <<66956,66962,1,39>>, <<66964,66965,1,39>>,
    <<68736,68786,1,64>>, <<71840,71871,1,32>>, <<93760,93791,1,32>>, <<125184,125217,1,34>> >>

\* The cased characters that are not case-ignorable, as ranges.
CasedRanges == <<
    <<65,90>>, <<97,122>>, <<170,170>>, <<181,181>>, <<186,186>>, <<192,214>>,
    <<216,246>>, <<248,442>>, <<444,447>>, <<452,659>>, <<661,687>>, <<880,883>>,
    <<886,887>>, <<891,893>>, <<895,895>>, <<902,902>>, <<904,906>>, <<908,908>>,
    <<910,929>>, <<931,1013>>, <<1015,1153>>, <<1162,1327>>, <<1329,1366>>, <<1376,1416>>,
    <<4256,4293>>, <<4295,4295>>, <<4301,4301>>, <<4304,4346>>, <<4349,4351>>, <<5024,5109>>,
    <<5112,5117>>, <<7296,7304>>, <<7312,7354>>, <<7357,7359>>, <<7424,7467>>, <<7531,7543>>,
    <<7545,7578>>, <<7680,7957>>, <<7960,7965>>, <<7968,8005>>, <<8008,8013>>, <<8016,8023>>,
    <<8025,8025>>, <<8027,8027>>, <<8029,8029>>, <<8031,8061>>, <<8064,8116>>, <<8118,8124>>,
    <<8126,8126>>, <<8130,8132>>, <<8134,8140>>, <<8144,8147>>, <<8150,8155>>, <<8160,8172>>,
    <<8178,8180>>, <<8182,8188>>, <<8450,8450>>, <<8455,8455>>, <<8458,8467>>, <<8469,8469>>,
    <<8473,8477>>, <<8484,8484>>, <<8486,8486>>, <<8488,8488>>, <<8490,8493>>, <<8495,8500>>,
    <<8505,8505>>, <<8508,8511>>, <<8517,8521>>, <<8526,8526>>, <<8544,8575>>, <<8579,8580>>,
    <<9398,9449>>, <<11264,11387>>, <<11390,11492>>, <<11499,11502>>, <<11506,11507>>, <<11520,11557>>,
    <<11559,11559>>, <<11565,11565>>, <<42560,42605>>, <<42624,42651>>, <<42786,42863>>, <<42865,42887>>,
    <<42891,42894>>, <<42896,42954>>, <<42960,42961>>, <<42963,42963>>, <<42965,42969>>, <<42997,42998>>,
    <<43002,43002>>, <<43824,43866>>, <<43872,43880>>, <<43888,43967>>, <<64256,64262>>, <<64275,64279>>,
    <<65313,65338>>, <<65345,65370>>, <<66560,66639>>, <<66736,66771>>, <<66776,66811>>, <<66928,66938>>,
    <<66940,66954>>, <<66956,66962>>, <<66964,66965>>, <<66967,66977>>, <<66979,66993>>, <<66995,67001>>,
    <<67003,67004>>, <<68736,68786>>, <<68800,68850>>, <<71840,71903>>, <<93760,93823>>, <<119808,119892>>,
    <<119894,119964>>, <<119966,119967>>, <<119970,119970>>, <<119973,119974>>, <<119977,119980>>, <<119982,119993>>,
    <<119995,119995>>, <<119997,120003>>, <<120005,120069>>, <<120071,120074>>, <<120077,120084>>, <<120086,120092>>,
    <<120094,120121>>, <<120123,120126>>, <<120128,120132>>, <<120134,120134>>, <<120138,120144>>, <<120146,120485>>,
    <<120488,120512>>, <<120514,120538>>, <<120540,120570>>, <<120572,120596>>, <<120598,120628>>, <<120630,120654>>,
    <<120656,120686>>, <<120688,120712>>, <<120714,120744>>, <<120746,120770>>, <<120772,120779>>, <<122624,122633>>,
    <<122635,122654>>, <<125184,125251>>, <<127280,127305>>, <<127312,127337>>, <<127344,127369>> >>

\* The case-ignorable characters, as ranges.
CaseIgnorableRanges == <<
    <<39,39>>, <<46,46>>, <<58,58>>, <<94,94>>, <<96,96>>, <<168,168>>,
    <<173,173>>, <<175,175>>, <<180,180>>, <<183,184>>, <<688,879>>, <<884,885>>,
    <<890,890>>, <<900,901>>, <<903,903>>, <<1155,1161>>, <<1369,1369>>, <<1375,1375>>,
    <<1425,1469>>, <<1471,1471>>, <<1473,1474>>, <<1476,1477>>, <<1479,1479>>, <<1524,1524>>,
    <<1536,1541>>, <<1552,1562>>, <<1564,1564>>, <<1600,1600>>, <<1611,1631>>, <<1648,1648>>,
    <<1750,1757>>, <<1759,1768>>, <<1770,1773>>, <<1807,1807>>, <<1809,1809>>, <<1840,1866>>,
    <<1958,1968>>, <<2027,2037>>, <<2042,2042>>, <<2045,2045>>, <<2070,2093>>, <<2137,2139>>,
    <<2184,2184>>, <<2192,2193>>, <<2200,2207>>, <<2249,2306>>, <<2362,2362>>, <<2364,2364>>,
    <<2369,2376>>, <<2381,2381>>, <<2385,2391>>, <<2402,2403>>, <<2417,2417>>, <<2433,2433>>,
    <<2492,2492>>, <<2497,2500>>, <<2509,2509>>, <<2530,2531>>, <<2558,2558>>, <<2561,2562>>,
    <<2620,2620>>, <<2625,2626>>, <<2631,2632>>, <<2635,2637>>, <<2641,2641>>, <<2672,2673>>,
    <<2677,2677>>, <<2689,2690>>, <<2748,2748>>, <<2753,2757>>, <<2759,2760>>, <<2765,2765>>,
    <<2786,2787>>, <<2810,2815>>, <<2817,2817>>, <<2876,2876>>, <<2879,2879>>, <<2881,2884>>,
    <<2893,2893>>, <<2901,2902>>, <<2914,2915>>, <<2946,2946>>, <<3008,3008>>, <<3021,3021>>,
    <<3072,3072>>, <<3076,3076>>, <<3132,3132>>, <<3134,3136>>, <<3142,3144>>, <<3146,3149>>,
    <<3157,3158>>, <<3170,3171>>, <<3201,3201>>, <<3260,3260>>, <<3263,3263>>, <<3270,3270>>,
    <<3276,3277>>, <<3298,3299>>, <<3328,3329>>, <<3387,3388>>, <<3393,3396>>, <<3405,3405>>,
    <<3426,3427>>, <<3457,3457>>, <<3530,3530>>, <<3538,3540>>, <<3542,3542>>, <<3633,3633>>,
    <<3636,3642>>, <<3654,3662>>, <<3761,3761>>, <<3764,3772>>, <<3782,3782>>, <<3784,3789>>,
    <<3864,3865>>, <<3893,3893>>, <<3895,3895>>, <<3897,3897>>, <<3953,3966>>, <<3968,3972>>,
    <<3974,3975>>, <<3981,3991>>, <<3993,4028>>, <<4038,4038>>, <<4141,4144>>, <<4146,4151>>,
    <<4153,4154>>, <<4157,4158>>, <<4184,4185>>, <<4190,4192>>, <<4209,4212>>, <<4226,4226>>,
    <<4229,4230>>, <<4237,4237>>, <<4253,4253>>, <<4348,4348>>, <<4957,4959>>, <<5906,5908>>,
    <<5938,5939>>, <<5970,5971>>, <<6002,6003>>, <<6068,6069>>, <<6071,6077>>, <<6086,6086>>,
    <<6089,6099>>, <<6103,6103>>, <<6109,6109>>, <<6155,6159>>, <<6211,6211>>, <<6277,6278>>,
    <<6313,6313>>, <<6432,6434>>, <<6439,6440>>, <<6450,6450>>, <<6457,6459>>, <<6679,6680>>,
    <<6683,6683>>, <<6742,6742>>, <<6744,6750>>, <<6752,6752>>, <<6754,6754>>, <<6757,6764>>,
    <<6771,6780>>, <<6783,6783>>, <<6823,6823>>, <<6832,6862>>, <<6912,6915>>, <<6964,6964>>,
    <<6966,6970>>, <<6972,6972>>, <<6978,6978>>, <<7019,7027>>, <<7040,7041>>, <<7074,7077>>,
    <<7080,7081>>, <<7083,7085>>, <<7142,7142>>, <<7144,7145>>, <<7149,7149>>, <<7151,7153>>,
    <<7212,7219>>, <<7222,7223>>, <<7288,7293>>, <<7376,7378>>, <<7380,7392>>, <<7394,7400>>,
    <<7405,7405>>, <<7412,7412>>, <<7416,7417>>, <<7468,7530>>, <<7544,7544>>, <<7579,7679>>,
    <<8125,8125>>, <<8127,8129>>, <<8141,8143>>, <<8157,8159>>, <<8173,8175>>, <<8189,8190>>,
    <<8203,8207>>, <<8216,8217>>, <<8228,8228>>, <<8231,8231>>, <<8234,8238>>, <<8288,8292>>,
    <<8294,8303>>, <<8305,8305>>, <<8319,8319>>, <<8336,8348>>, <<8400,8432>>, <<11388,11389>>,
    <<11503,11505>>, <<11631,11631>>, <<11647,11647>>, <<11744,11775>>, <<11823,11823>>, <<12293,12293>>,
    <<12330,12333>>, <<12337,12341>>, <<12347,12347>>, <<12441,12446>>, <<12540,12542>>, <<40981,40981>>,
    <<42232,42237>>, <<42508,42508>>, <<42607,42610>>, <<42612,42621>>, <<42623,42623>>, <<42652,42655>>,
    <<42736,42737>>, <<42752,42785>>, <<42864,42864>>, <<42888,42890>>, <<42994,42996>>, <<43000,43001>>,
    <<43010,43010>>, <<43014,43014>>, <<43019,43019>>, <<43045,43046>>, <<43052,43052>>, <<43204,43205>>,
    <<43232,43249>>, <<43263,43263>>, <<43302,43309>>, <<43335,43345>>, <<43392,43394>>, <<43443,43443>>,
    <<43446,43449>>, <<43452,43453>>, <<43471,43471>>, <<43493,43494>>, <<43561,43566>>, <<43569,43570>>,
    <<43573,43574>>, <<43587,43587>>, <<43596,43596>>, <<43632,43632>>, <<43644,43644>>, <<43696,43696>>,
    <<43698,43700>>, <<43703,43704>>, <<43710,43711>>, <<43713,43713>>, <<43741,43741>>, <<43756,43757>>,
    <<43763,43764>>, <<43766,43766>>, <<43867,43871>>, <<43881,43883>>, <<44005,44005>>, <<44008,44008>>,
    <<44013,44013>>, <<64286,64286>>, <<64434,64450>>, <<65024,65039>>, <<65043,65043>>, <<65056,65071>>,
    <<65106,65106>>, <<65109,65109>>, <<65279,65279>>, <<65287,65287>>, <<65294,65294>>, <<65306,65306>>,
    <<65342,65342>>, <<65344,65344>>, <<65392,65392>>, <<65438,65439>>, <<65507,65507>>, <<65529,65531>>,
    <<66045,66045>>, <<66272,66272>>, <<66422,66426>>, <<67456,67461>>, <<67463,67504>>, <<67506,67514>>,
    <<68097,68099>>, <<68101,68102>>, <<68108,68111>>, <<68152,68154>>, <<68159,68159>>, <<68325,68326>>,
    <<68900,68903>>, <<69291,69292>>, <<69446,69456>>, <<69506,69509>>, <<69633,69633>>, <<69688,69702>>,
    <<69744,69744>>, <<69747,69748>>, <<69759,69761>>, <<69811,69814>>, <<69817,69818>>, <<69821,69821>>,
    <<69826,69826>>, <<69837,69837>>, <<69888,69890>>, <<69927,69931>>, <<69933,69940>>, <<70003,70003>>,
    <<70016,70017>>, <<70070,70078>>, <<70089,70092>>, <<70095,70095>>, <<70191,70193>>, <<70196,70196>>,
    <<70198,70199>>, <<70206,70206>>, <<70367,70367>>, <<70371,70378>>, <<70400,70401>>, <<70459,70460>>,
    <<70464,70464>>, <<70502,70508>>, <<70512,70516>>, <<70712,70719>>, <<70722,70724>>, <<70726,70726>>,
    <<70750,70750>>, <<70835,70840>>, <<70842,70842>>, <<70847,70848>>, <<70850,70851>>, <<71090,71093>>,
    <<71100,71101>>, <<71103,71104>>, <<71132,71133>>, <<71219,71226>>, <<71229,71229>>, <<71231,71232>>,
    <<71339,71339>>, <<71341,71341>>, <<71344,71349>>, <<71351,71351>>, <<71453,71455>>, <<71458,71461>>,
    <<71463,71467>>, <<71727,71735>>, <<71737,71738>>, <<71995,71996>>, <<71998,71998>>, <<72003,72003>>,
    <<72148,72151>>, <<72154,72155>>, <<72160,72160>>, <<72193,72202>>, <<72243,72248>>, <<72251,72254>>,
    <<72263,72263>>, <<72273,72278>>, <<72281,72283>>, <<72330,72342>>, <<72344,72345>>, <<72752,72758>>,
    <<72760,72765>>, <<72767,72767>>, <<72850,72871>>, <<72874,72880>>, <<72882,72883>>, <<72885,72886>>,
    <<73009,73014>>, <<73018,73018>>, <<73020,73021>>, <<73023,73029>>, <<73031,73031>>, <<73104,73105>>,
    <<73109,73109>>, <<73111,73111>>, <<73459,73460>>, <<78896,78904>>, <<92912,92916>>, <<92976,92982>>,
    <<92992,92995>>, <<94031,94031>>, <<94095,94111>>, <<94176,94177>>, <<94179,94180>>, <<110576,110579>>,
    <<110581,110587>>, <<110589,110590>>, <<113821,113822>>, <<113824,113827>>, <<118528,118573>>, <<118576,118598>>,
    <<119143,119145>>, <<119155,119170>>, <<119173,119179>>, <<119210,119213>>, <<119362,119364>>, <<121344,121398>>,
    <<121403,121452>>, <<121461,121461>>, <<121476,121476>>, <<121499,121503>>, <<121505,121519>>, <<122880,122886>>,
    <<122888,122904>>, <<122907,122913>>, <<122915,122916>>, <<122918,122922>>, <<123184,123197>>, <<123566,123566>>,
    <<123628,123631>>, <<125136,125142>>, <<125252,125259>>, <<127995,127999>>, <<917505,917505>>, <<917536,917631>>,
    <<917760,917999>> >>

\* str.lower() of one character taken alone; U+0130 gives two characters.
LowerChar(c) ==
    IF c < 128 THEN (IF 65 <= c /\ c <= 90 THEN <<c + 32>> ELSE <<c>>)
    ELSE IF c = 304 THEN <<105, 775>>
    ELSE IF \E i \in 1..Len(LowerRanges) :
               /\ LowerRanges[i][1] <= c /\ c <= LowerRanges[i][2]
               /\ (c - LowerRanges[i][1]) % LowerRanges[i][3] = 0
         THEN LET i == CHOOSE j \in 1..Len(LowerRanges) :
                          /\ LowerRanges[j][1] <= c /\ c <= LowerRanges[j][2]
                          /\ (c - LowerRanges[j][1]) % LowerRanges[j][3] = 0
              IN  <<c + LowerRanges[i][4]>>
         ELSE <<c>>

\* The capital sigma at place i of s ends a word: going back over the
\* case-ignorable characters a cased character is found, going forward
\* none is.
FinalSigma(s, i) ==
    /\ \E j \in 1..(i - 1) :
          /\ InRanges(s[j], CasedRanges)
          /\ \A k \in (j + 1)..(i - 1) : InRanges(s[k], CaseIgnorableRanges)
    /\ ~ \E j \in (i + 1)..Len(s) :
          /\ InRanges(s[j], CasedRanges)
          /\ \A k \in (i + 1)..(j - 1) : InRanges(s[k], CaseIgnorableRanges)

RECURSIVE LowerFrom(_, _)
LowerFrom(s, i) ==
    IF i > Len(s) THEN <<>>
    ELSE (IF s[i] = 931 /\ FinalSigma(s, i) THEN <<962>> ELSE LowerChar(s[i]))
            \o LowerFrom(s, i + 1)

\* str.lower()
Lower(s) == LowerFrom(s, 1)

RECURSIVE LStrip(_)
LStrip(s) ==
    IF s # <<>> /\ Head(s) \in Whitespace THEN LStrip(Tail(s)) ELSE s

RECURSIVE RStrip(_)
RStrip(s) ==
    IF s # <<>> /\ s[Len(s)] \in Whitespace
    THEN RStrip(SubSeq(s, 1, Len(s) - 1))
    ELSE s

\* str.strip()
Strip(s) == RStrip(LStrip(s))

\* re.sub(r"\s+", " ", s): every maximal run of whitespace becomes one space.
RECURSIVE CollapseWs(_)
CollapseWs(s) ==
    IF s = <<>> THEN <<>>
    ELSE IF Head(s) \in Whitespace
         THEN <<32>> \o CollapseWs(LStrip(s))
         ELSE <<Head(s)>> \o CollapseWs(Tail(s))

\* norm(s): None counts as empty; collapse whitespace, strip, lowercase.
norm(s) == Lower(Strip(CollapseWs(OrEmpty(s))))

\* Python's "kw in hay" on strings.
Contains(hay, kw) ==
    \E i \in 0..(Len(hay) - Len(kw)) : SubSeq(hay, i + 1, i + Len(kw)) = kw

\* sep.join(parts)
RECURSIVE Join(_, _)
Join(parts, sep) ==
    IF parts = <<>> THEN <<>>
    ELSE IF Len(parts) = 1 THEN parts[1]
    ELSE parts[1] \o sep \o Join(Tail(parts), sep)

\* s[:n] for n >= 0 and s[:n] for n < 0 (Python drops the last -n items).
SlicePrefix(s, n) ==
    IF n >= 0
    THEN SubSeq(s, 1, IF n < Len(s) THEN n ELSE Len(s))
    ELSE SubSeq(s, 1, IF Len(s) + n > 0 THEN Len(s) + n ELSE 0)

\* a < b for two strings: the order of the code points, a proper prefix
\* first.
StrLess(a, b) ==
    \E i \in 1..(Len(b)) :
        /\ i <= Len(a) + 1
        /\ \A j \in 1..(i - 1) : a[j] = b[j]
        /\ (i = Len(a) + 1 \/ a[i] < b[i])

(***************************************************************************)
(* Entries: a feed entry is a dict, here a function from the keys it has   *)
(* (strings) to their values (strings or None).  d.get(k, default) is      *)
(* Get(d, k, default).                                                     *)
(***************************************************************************)

Get(d, k, default) == IF k \in DOMAIN d THEN d[k] ELSE default

\* The dict with the given <<key, value>> items.
Dict(items) ==
    [k \in { it[1] : it \in items } |->
        (CHOOSE it \in items : it[1] = k)[2]]

\* The keys that the program reads.
IdKey == S(<<"i", "d">>)
GuidKey == S(<<"g", "u", "i", "d">>)
LinkKey == S(<<"l", "i", "n", "k">>)
TitleKey == S(<<"t", "i", "t", "l", "e">>)
PublishedKey == S(<<"p", "u", "b", "l", "i", "s", "h", "e", "d">>)
UpdatedKey == S(<<"u", "p", "d", "a", "t", "e", "d">>)
SummaryKey == S(<<"s", "u", "m", "m", "a", "r", "y">>)
DescriptionKey == S(<<"d", "e", "s", "c", "r", "i", "p", "t", "i", "o", "n">>)

\* sorted(keys): the keys of a dict in ascending order.
RECURSIVE SortedKeys(_)
SortedKeys(keys) ==
    IF keys = {} THEN <<>>
    ELSE LET first == CHOOSE k \in keys :
                          \A o \in keys \ {k} : StrLess(k, o)
         IN  <<first>> \o SortedKeys(keys \ {first})

\* One hexadecimal digit, lower case.
HexDigit(n) == IF n < 10 THEN 48 + n ELSE 87 + n

\* json's escaping of one character of a string (ensure_ascii=False): the
\* quote, the backslash and the characters below U+0020.
JsonEscapeChar(c) ==
    CASE c = 34 -> <<92, 34>>
      [] c = 92 -> <<92, 92>>
      [] c = 10 -> <<92, 110>>
      [] c = 13 -> <<92, 114>>
      [] c = 9  -> <<92, 116>>
      [] c = 8  -> <<92, 98>>
      [] c = 12 -> <<92, 102>>
      [] c < 32 /\ c \notin {8, 9, 10, 12, 13} ->
            <<92, 117, 48, 48, HexDigit(c \div 16), HexDigit(c % 16)>>
      [] OTHER  -> <<c>>

RECURSIVE JsonEscape(_)
JsonEscape(s) ==
    IF s = <<>> THEN <<>> ELSE JsonEscapeChar(Head(s)) \o JsonEscape(Tail(s))

JsonString(s) == <<34>> \o JsonEscape(s) \o <<34>>

\* The serialized value of a key: a string, or null for None.
JsonValue(v) == IF v = None THEN S(<<"n", "u", "l", "l">>) ELSE JsonString(v)

\* The "key": value items of the entry for the keys in the given order.
RECURSIVE JsonItems(_, _)
JsonItems(entry, names) ==
    IF names = <<>> THEN <<>>
    ELSE <<JsonString(Head(names)) \o <<58, 32>> \o JsonValue(entry[Head(names)])>>
            \o JsonItems(entry, Tail(names))

\* json.dumps(entry, sort_keys=True, ensure_ascii=False)
JsonDumps(entry) ==
    <<123>> \o Join(JsonItems(entry, SortedKeys(DOMAIN entry)), <<44, 32>>)
            \o <<125>>

\* The prefix of the serialized entry that the fallback hashes.
FallbackPrefixLen == 500

\* hashlib.sha256(raw).hexdigest(), taken as injective on its input: the
\* digest is represented by the string it was computed from.
Sha256Hex(raw) == [sha256 |-> raw]

\* make_entry_key(entry)
make_entry_key(entry) ==
    LET parts == << Str(Get(entry, IdKey, <<>>)),
                    Str(Get(entry, GuidKey, <<>>)),
                    Str(Get(entry, LinkKey, <<>>)),
                    Str(Get(entry, TitleKey, <<>>)),
                    Str(Get(entry, PublishedKey, <<>>)),
                    Str(Get(entry, UpdatedKey, <<>>)) >>
        joined == Strip(Join(parts, <<124, 124>>))
        raw == IF joined = <<>>
               THEN SlicePrefix(JsonDumps(entry), FallbackPrefixLen)
               ELSE joined
    IN  Sha256Hex(raw)

\* The include list consulted before the exclude list.
passes_filtersIncludeFirst(title, summary, include_any, exclude_any) ==
    LET hay == norm(title) \o <<32>> \o norm(summary)
        Hit(kw) == norm(kw) # <<>> /\ Contains(hay, norm(kw))
        excl == OrEmptyList(exclude_any)
        incl == OrEmptyList(include_any)
    IN  IF \E i \in 1..Len(incl) : Hit(incl[i]) THEN TRUE
        ELSE IF \E i \in 1..Len(excl) : Hit(excl[i]) THEN FALSE
        ELSE incl = <<>>

\* The keywords not tested for being empty after normalization.
passes_filtersEmptyKeywordHits(title, summary, include_any, exclude_any) ==
    LET hay == norm(title) \o <<32>> \o norm(summary)
        Hit(kw) == Contains(hay, norm(kw))
        excl == OrEmptyList(exclude_any)
        incl == OrEmptyList(include_any)
    IN  IF \E i \in 1..Len(excl) : Hit(excl[i]) THEN FALSE
        ELSE IF incl = <<>> THEN TRUE
        ELSE \E i \in 1..Len(incl) : Hit(incl[i])

\* passes_filters(title, summary, include_any, exclude_any)
passes_filters(title, summary, include_any, exclude_any) ==
    LET hay == norm(title) \o <<32>> \o norm(summary)
        Hit(kw) == norm(kw) # <<>> /\ Contains(hay, norm(kw))
        excl == OrEmptyList(exclude_any)
        incl == OrEmptyList(include_any)
    IN  IF \E i \in 1..Len(excl) : Hit(excl[i]) THEN FALSE
        ELSE IF incl = <<>> THEN TRUE
        ELSE \E i \in 1..Len(incl) : Hit(incl[i])

(***************************************************************************)
(* The inputs: entries, feed descriptors, what the feed URLs return        *)
(***************************************************************************)

\* Two runs of the process are followed (the first and a later one).
MaxRuns == 2

\* A configuration lists at most this many feeds.
MaxFeeds == 2

\* An entry with an id that matches the keyword "out".
EntryA == Dict({ <<IdKey, S(<<"1">>)>>,
                 <<TitleKey, S(<<"O", "u", "t">>)>>,
                 <<SummaryKey, S(<<"x">>)>> })

\* The same six identity fields as EntryA, another summary: the same identity.
EntryA2 == Dict({ <<IdKey, S(<<"1">>)>>,
                  <<TitleKey, S(<<"O", "u", "t">>)>>,
                  <<SummaryKey, S(<<"y">>)>> })

\* An entry that matches "fun" and not "out"; its title begins with a
\* no-break space and its link is None.
EntryB == Dict({ <<IdKey, S(<<"2">>)>>,
                 <<LinkKey, None>>,
                 <<TitleKey, <<160>> \o S(<<"F", "u", "n">>)>> })

\* An entry without id and summary that matches both keywords.
EntryC == Dict({ <<LinkKey, S(<<"c">>)>>,
                 <<TitleKey, S(<<"f", "u", "n">>)>>,
                 <<DescriptionKey, S(<<"o", "u", "t">>)>> })

UrlA == S(<<"a">>)
UrlB == S(<<"b">>)
Urls == {UrlA, UrlB}

\* The feed descriptors of config.json that the configurations are built
\* of; a descriptor has the keys it needs, the others take their defaults.
FeedOut == [name |-> S(<<"O", "u", "t">>), url |-> S(<<" ", "a">>),
            include_any |-> << S(<<"O", "U", "T">>) >>,
            max_items |-> 2]

FeedNoFun == [name |-> S(<<"N", "o", "F", "u", "n">>), url |-> S(<<"b">>),
              include_any |-> NoneList,
              exclude_any |-> << S(<<"f", "u", "n">>) >>]

FeedNoUrl == [url |-> <<160, 32>>, max_items |-> 0]

\* Lists of feeds: two URLs in both orders, a URL twice, a feed without URL
\* first and last.
FeedLists ==
    { <<FeedNoUrl, FeedOut, FeedNoFun>>,
      <<FeedOut, FeedNoFun, FeedNoUrl>>,
      <<FeedNoFun, FeedOut>>,
      <<FeedOut, FeedOut>> }

\* config["feeds"]: the first n feeds of one of the lists, n <= MaxFeeds.
Configs == { SlicePrefix(c, n) : c \in FeedLists, n \in 0..MaxFeeds }

\* What feedparser.parse(url) may return: the bozo flag, if it is there,
\* and the entries.
FetchResults ==
    { [bozo |-> FALSE, entries |-> <<EntryA, EntryB, EntryC>>],
      [entries |-> <<EntryB, EntryA2, EntryA>>],
      [bozo |-> TRUE,  entries |-> <<EntryA>>] }

(***************************************************************************)
(* Seen sets.  A stored seen set is the set of its identities; the order   *)
(* of the stored list is never read back (line 142 makes a set of it).     *)
(* Identities of entries that no feed returns any more cannot be told      *)
(* apart by the program, so a seen set is kept as the identities that      *)
(* entries of FetchResults have (keys) and the number of the others (old). *)
(***************************************************************************)

\* list(seen_hashes)[-400:] keeps this many identities.
TrimLimit == 400

EmptySeen == [keys |-> {}, old |-> 0]

Size(s) == Cardinality(s.keys) + s.old

\* One seen set for all URLs: the identities stored under any URL.
SeenOfAnyUrl(m, url) ==
    [keys |-> UNION { m[u].keys : u \in DOMAIN m },
     old |-> IF url \in DOMAIN m THEN m[url].old ELSE 0]

\* seen_map.get(url, [])
SeenOf(m, url) == IF url \in DOMAIN m THEN m[url] ELSE EmptySeen

\* seen_map[url] = v
Put(m, url, v) == [u \in DOMAIN m \cup {url} |-> IF u = url THEN v ELSE m[u]]

\* The identity appended to new_hashes only, not added to seen_hashes.
AddKeyForgets(s, key) == s

\* seen_hashes.add(key)
AddKey(s, key) == [s EXCEPT !.keys = @ \cup {key}]

\* The trim with the slice one too long, [-401:].
TrimmedKeepsOneMore(s) ==
    IF Size(s) <= TrimLimit + 1 THEN {s}
    ELSE { t \in [keys : SUBSET s.keys, old : 0..s.old] :
             Size(t) = TrimLimit + 1 }

\* The slice with the sign on the wrong side, [:-400]: all but the last 400.
TrimmedAllButLast(s) ==
    { t \in [keys : SUBSET s.keys, old : 0..s.old] :
        Size(t) = IF Size(s) > TrimLimit THEN Size(s) - TrimLimit ELSE 0 }

\* list(seen_hashes)[-400:]: the last 400 members in the set's iteration
\* order, which is the order of the string hashes and not of insertion, so
\* any 400 of the members may be the ones kept.
Trimmed(s) ==
    IF Size(s) <= TrimLimit THEN {s}
    ELSE { t \in [keys : SUBSET s.keys, old : 0..s.old] : Size(t) = TrimLimit }

\* state.json: absent, or as earlier runs left it, with one identity for
\* the first URL and the second URL at the limit.
NoSeen == [u \in {} |-> EmptySeen]

FullSeen == [u \in Urls |->
               IF u = UrlA
               THEN [keys |-> {make_entry_key(EntryB)}, old |-> 0]
               ELSE [keys |-> {}, old |-> TrimLimit]]

StateFiles == {NoSeen, FullSeen}

(***************************************************************************)
(* The arguments of the single applications of make_entry_key and          *)
(* passes_filters                                                          *)
(***************************************************************************)

\* Marks a key that an entry does not have.
Absent == <<-3>>

\* The entry with the items whose value is not Absent.
WithoutAbsent(items) == Dict({ it \in items : it[2] # Absent })

\* Entries for make_entry_key: the first and the last of the six identity
\* fields, one in between and one key outside the six; values that are
\* None, empty, blank, padded with whitespace or hold the separator's
\* character.
KeyEntries ==
    { WithoutAbsent({ <<IdKey, i>>, <<GuidKey, g>>, <<UpdatedKey, u>>,
                      <<SummaryKey, s>> }) :
        i \in {Absent, None, <<>>, <<160>>, S(<<"a">>), S(<<" ", "a">>),
               S(<<"a", "|">>)},
        g \in {Absent, S(<<"|">>), S(<<"b">>)},
        u \in {Absent, S(<<"c">>), <<99, 12>>},
        s \in {Absent, S(<<"x">>), S(<<"y">>)} }

\* include_any and exclude_any hold at most this many keywords.
MaxKeywords == 2

\* Keywords: empty, blank, one that norm changes, one that never matches.
Keywords == { <<>>, <<160>>, <<66, 160, 32, 99>>, S(<<"z">>) }

\* The lists of keywords, and None for a list.
KeywordLists ==
    {NoneList} \cup UNION { [1..n -> Keywords] : n \in 0..MaxKeywords }

Titles == { None, <<>>, S(<<"A", "b">>), <<97, 32, 32, 196>> }

Summaries == { <<>>, S(<<"c">>), <<228, 9, 66, 11, 99>> }

\* No function is applied: the process runs.
NoCall == [fn |-> "none"]

\* make_entry_key applied to each of two entries.
KeyCalls ==
    { [fn |-> "make_entry_key", a |-> a, b |-> b] : a, b \in KeyEntries }

FilterCalls ==
    [fn : {"passes_filters"}, title : Titles, summary : Summaries,
     include_any : KeywordLists, exclude_any : KeywordLists]

(***************************************************************************)
(* State                                                                   *)
(***************************************************************************)
VARIABLES
    config,       \* config.json: the list of feed descriptors
    stateFile,    \* state.json: state["seen"], feed URL -> seen set
    pc,           \* "idle", "feeds" (line 125), "iter" (line 145), "exit"
    outcome,      \* "none", "done", "nofeeds", "error"
    error,        \* what telegram_send raised for: "credentials", "response"
    exitStatus,   \* the process exit status, -1 while there is none
    seen_map, changed, sent,                  \* main's locals
    fi,           \* index of the feed f of the loop at line 125
    entries, ei,  \* the sliced entries and the index of e in them
    seen_hashes, new_hashes,
    \* history of the current run
    runNo, startFile, writes, fetches, evaluated, dispatched, trims, failedAt,
    \* history of the earlier runs
    pastDispatched,  \* the <<url, identity>> pairs sent in earlier runs
    prevRejected,    \* those the previous run filtered out, if it completed
    prevOutcome,     \* the outcome of the previous run
    prevFetches,     \* what the fetches of the previous run returned
    \* one application of a function of the program, outside any run
    call,            \* the function applied and its arguments
    result           \* <<>> before the application, then what it returned

codeVars == <<config, stateFile, pc, outcome, error, exitStatus,
              seen_map, changed, sent, fi, entries, ei, seen_hashes,
              new_hashes>>

runHist == <<runNo, startFile, writes, fetches, evaluated, dispatched, trims,
             failedAt>>

pastHist == <<pastDispatched, prevRejected, prevOutcome, prevFetches>>

pureVars == <<call, result>>

vars == <<codeVars, runHist, pastHist, pureVars>>

\* The feed of the current loop iteration and its stripped URL (line 127).
CurFeed == config[fi]

\* Line 127: f.get("url", "").strip()
FeedUrl(f) == Strip(Get(f, "url", <<>>))

\* Lines 128-129: f.get("include_any", []), f.get("exclude_any", [])
FeedInclude(f) == Get(f, "include_any", <<>>)

FeedExclude(f) == Get(f, "exclude_any", <<>>)

\* The max_items of a feed that does not give one.
DefaultMaxItems == 30

\* Line 130: int(f.get("max_items", 30))
FeedMaxItems(f) == Get(f, "max_items", DefaultMaxItems)

CurUrl == FeedUrl(CurFeed)

CurEntry == entries[ei]

CurKey == make_entry_key(CurEntry)

\* Lines 151-152: the title and summary handed to the filter.
EntryTitle(e) == Strip(Str(OrEmpty(Get(e, TitleKey, <<>>))))

EntrySummary(e) ==
    Strip(Str(OrEmpty(Get(e, SummaryKey, Get(e, DescriptionKey, <<>>)))))

\* Line 157: the filter decision for entry e of feed f.
Passes(f, e) ==
    passes_filters(EntryTitle(e), EntrySummary(e), FeedInclude(f),
                   FeedExclude(f))

\* The bozo check left out.
IsMalformedNever(parsed) == FALSE

\* Line 136: getattr(parsed, "bozo", 0)
IsMalformed(parsed) == Get(parsed, "bozo", FALSE)

\* The slice one too long, [:max_items + 1].
TakeEntriesOneMore(parsed, max_items) ==
    SlicePrefix(Get(parsed, "entries", <<>>), max_items + 1)

\* Line 141: getattr(parsed, "entries", [])[:max_items]
TakeEntries(parsed, max_items) ==
    SlicePrefix(Get(parsed, "entries", <<>>), max_items)

Init ==
    /\ config \in Configs
    /\ stateFile \in StateFiles
    /\ pc = "idle" /\ outcome = "none" /\ error = "none" /\ exitStatus = -1
    /\ seen_map = NoSeen /\ changed = FALSE /\ sent = 0
    /\ fi = 1 /\ entries = <<>> /\ ei = 1
    /\ seen_hashes = EmptySeen /\ new_hashes = <<>>
    /\ runNo = 0 /\ startFile = stateFile /\ writes = 0
    /\ fetches = <<>> /\ evaluated = <<>> /\ dispatched = <<>>
    /\ trims = <<>> /\ failedAt = <<>>
    /\ pastDispatched = {} /\ prevRejected = {} /\ prevOutcome = "none"
    /\ prevFetches = <<>>
    /\ call = NoCall /\ result = <<>>

\* The <<url, identity>> pairs of a log of the run.
Pairs(log) == { <<log[i].url, log[i].key>> : i \in 1..Len(log) }

Rejected(log) ==
    { <<log[i].url, log[i].key>> : i \in { j \in 1..Len(log) : ~log[j].pass } }

\* The run started without the check for an empty list of feeds.
StartRunWithoutFeedCheck ==
    /\ UNCHANGED pureVars
    /\ pc \in {"idle", "exit"}
    /\ runNo < MaxRuns
    /\ error' = "none"
    /\ seen_map' = stateFile
    /\ changed' = FALSE /\ sent' = 0
    /\ fi' = 1 /\ entries' = <<>> /\ ei' = 1
    /\ seen_hashes' = EmptySeen /\ new_hashes' = <<>>
    /\ pc' = "feeds" /\ outcome' = "none" /\ exitStatus' = -1
    /\ runNo' = runNo + 1
    /\ startFile' = stateFile
    /\ writes' = 0 /\ fetches' = <<>> /\ evaluated' = <<>>
    /\ dispatched' = <<>> /\ trims' = <<>> /\ failedAt' = <<>>
    /\ pastDispatched' = pastDispatched \cup Pairs(dispatched)
    /\ prevRejected' = IF outcome = "done" THEN Rejected(evaluated) ELSE {}
    /\ prevOutcome' = outcome
    /\ prevFetches' = fetches
    /\ UNCHANGED <<config, stateFile>>

(***************************************************************************)
(* main(), lines 112-123: the process starts, loads config.json and        *)
(* state.json and returns 1 at once when no feed is configured.           *)
(***************************************************************************)
StartRun ==
    /\ UNCHANGED pureVars
    /\ pc \in {"idle", "exit"}
    /\ runNo < MaxRuns
    /\ error' = "none"
    /\ seen_map' = stateFile
    /\ changed' = FALSE /\ sent' = 0
    /\ fi' = 1 /\ entries' = <<>> /\ ei' = 1
    /\ seen_hashes' = EmptySeen /\ new_hashes' = <<>>
    /\ IF config = <<>>
       THEN pc' = "exit" /\ outcome' = "nofeeds" /\ exitStatus' = 1
       ELSE pc' = "feeds" /\ outcome' = "none" /\ exitStatus' = -1
    /\ runNo' = runNo + 1
    /\ startFile' = stateFile
    /\ writes' = 0 /\ fetches' = <<>> /\ evaluated' = <<>>
    /\ dispatched' = <<>> /\ trims' = <<>> /\ failedAt' = <<>>
    /\ pastDispatched' = pastDispatched \cup Pairs(dispatched)
    /\ prevRejected' = IF outcome = "done" THEN Rejected(evaluated) ELSE {}
    /\ prevOutcome' = outcome
    /\ prevFetches' = fetches
    /\ UNCHANGED <<config, stateFile>>

(***************************************************************************)
(* The loop over the feeds, lines 125-143                                  *)
(***************************************************************************)
AtFeed == pc = "feeds" /\ fi <= Len(config)

\* Lines 132-133: a feed without URL is passed over.
SkipFeedWithoutUrl ==
    /\ UNCHANGED pureVars
    /\ AtFeed
    /\ CurUrl = <<>>
    /\ fi' = fi + 1
    /\ UNCHANGED <<config, stateFile, pc, outcome, error,
                   exitStatus, seen_map, changed, sent, entries, ei,
                   seen_hashes, new_hashes, runHist, pastHist>>

\* The record of a fetch: line 135, parsed = feedparser.parse(url), returns
\* what the publisher of the URL serves at that moment.
Fetched(parsed) ==
    [feed |-> fi, url |-> CurUrl, bozo |-> Get(parsed, "bozo", FALSE),
     returned |-> Get(parsed, "entries", <<>>)]

\* The malformed feed ends the loop over the feeds (break for continue).
FetchMalformedBreaks ==
    /\ UNCHANGED pureVars
    /\ AtFeed
    /\ CurUrl # <<>>
    /\ \E parsed \in FetchResults :
          /\ IsMalformed(parsed)
          /\ fetches' = Append(fetches, Fetched(parsed))
    /\ fi' = Len(config) + 1
    /\ UNCHANGED <<config, stateFile, pc, outcome, error,
                   exitStatus, seen_map, changed, sent, entries, ei,
                   seen_hashes, new_hashes, runNo, startFile, writes,
                   evaluated, dispatched, trims, failedAt, pastHist>>

\* Lines 135-139: the fetch is flagged malformed, the feed is passed over.
FetchMalformed ==
    /\ UNCHANGED pureVars
    /\ AtFeed
    /\ CurUrl # <<>>
    /\ \E parsed \in FetchResults :
          /\ IsMalformed(parsed)
          /\ fetches' = Append(fetches, Fetched(parsed))
    /\ fi' = fi + 1
    /\ UNCHANGED <<config, stateFile, pc, outcome, error,
                   exitStatus, seen_map, changed, sent, entries, ei,
                   seen_hashes, new_hashes, runNo, startFile, writes,
                   evaluated, dispatched, trims, failedAt, pastHist>>

\* Lines 135-143: the fetch succeeds; the entries are cut to max_items and
\* the feed's seen set is loaded.
FetchFeed ==
    /\ UNCHANGED pureVars
    /\ AtFeed
    /\ CurUrl # <<>>
    /\ \E parsed \in FetchResults :
          /\ ~IsMalformed(parsed)
          /\ entries' = TakeEntries(parsed, FeedMaxItems(CurFeed))
          /\ fetches' = Append(fetches, Fetched(parsed))
    /\ seen_hashes' = SeenOf(seen_map, CurUrl)
    /\ new_hashes' = <<>>
    /\ ei' = 1
    /\ pc' = "iter"
    /\ UNCHANGED <<config, stateFile, outcome, error,
                   exitStatus, seen_map, changed, sent, fi, runNo, startFile,
                   writes, evaluated, dispatched, trims, failedAt, pastHist>>

(***************************************************************************)
(* The loop over the entries of a feed, lines 145-164                      *)
(***************************************************************************)
AtEntry == pc = "iter" /\ ei <= Len(entries)

\* Line 148: key in seen_hashes
IsSeen(key, seen) == key \in seen.keys

\* Lines 163-164: the entry is marked seen.
MarkSeen(key) ==
    /\ new_hashes' = Append(new_hashes, key)
    /\ seen_hashes' = AddKey(seen_hashes, key)
    /\ ei' = ei + 1

\* The record of an entry that reached the filter.
Evaluation(key, pass) ==
    [feed |-> fi, url |-> CurUrl, pos |-> ei, key |-> key, pass |-> pass]

\* Lines 148-149: an entry whose identity is in the seen set is passed over.
SkipSeen ==
    /\ UNCHANGED pureVars
    /\ AtEntry
    /\ IsSeen(CurKey, seen_hashes)
    /\ ei' = ei + 1
    /\ UNCHANGED <<config, stateFile, pc, outcome, error,
                   exitStatus, seen_map, changed, sent, fi, entries,
                   seen_hashes, new_hashes, runHist, pastHist>>

\* Lines 157, 163-164: the entry fails the filter and is marked seen.
FilterOut ==
    /\ UNCHANGED pureVars
    /\ AtEntry
    /\ LET key == CurKey
       IN  /\ ~IsSeen(key, seen_hashes)
           /\ ~Passes(CurFeed, CurEntry)
           /\ MarkSeen(key)
           /\ evaluated' = Append(evaluated, Evaluation(key, FALSE))
    /\ UNCHANGED <<config, stateFile, pc, outcome, error,
                   exitStatus, seen_map, changed, sent, fi, entries, runNo,
                   startFile, writes, fetches, dispatched, trims, failedAt,
                   pastHist>>

\* Lines 157-164 and 70-87: the entry passes the filter, the message is
\* delivered, the entry is counted and marked seen.
SendMessage ==
    /\ UNCHANGED pureVars
    /\ AtEntry
    /\ LET key == CurKey
       IN  /\ ~IsSeen(key, seen_hashes)
           /\ Passes(CurFeed, CurEntry)
           /\ sent' = sent + 1
           /\ MarkSeen(key)
           /\ evaluated' = Append(evaluated, Evaluation(key, TRUE))
           /\ dispatched' = Append(dispatched,
                                   [feed |-> fi, url |-> CurUrl, pos |-> ei,
                                    key |-> key])
    /\ UNCHANGED <<config, stateFile, pc, outcome, error,
                   exitStatus, seen_map, changed, fi, entries, runNo,
                   startFile, writes, fetches, trims, failedAt, pastHist>>

\* The failure caught per entry: the loop goes on with the next entry.
SendFailsAndContinues ==
    /\ UNCHANGED pureVars
    /\ AtEntry
    /\ LET key == CurKey
       IN  /\ ~IsSeen(key, seen_hashes)
           /\ Passes(CurFeed, CurEntry)
           /\ evaluated' = Append(evaluated, Evaluation(key, TRUE))
    /\ \E cause \in {"credentials", "response"} :
          /\ cause = "credentials" => sent = 0
          /\ error' = cause
    /\ ei' = ei + 1
    /\ failedAt' = <<[evaluated |-> Len(evaluated) + 1,
                      fetches |-> Len(fetches),
                      dispatched |-> Len(dispatched)]>>
    /\ UNCHANGED <<config, stateFile, pc, outcome, exitStatus,
                   seen_map, changed, sent, fi, entries, seen_hashes,
                   new_hashes, runNo, startFile, writes, fetches, dispatched,
                   trims, pastHist>>

\* The entry marked seen before its message is sent.
SendFailsAfterMarking ==
    /\ UNCHANGED pureVars
    /\ AtEntry
    /\ LET key == CurKey
       IN  /\ ~IsSeen(key, seen_hashes)
           /\ Passes(CurFeed, CurEntry)
           /\ evaluated' = Append(evaluated, Evaluation(key, TRUE))
           /\ new_hashes' = Append(new_hashes, key)
           /\ seen_hashes' = AddKey(seen_hashes, key)
    /\ \E cause \in {"credentials", "response"} :
          /\ cause = "credentials" => sent = 0
          /\ error' = cause
    /\ pc' = "exit" /\ outcome' = "error" /\ exitStatus' = 1
    /\ failedAt' = <<[evaluated |-> Len(evaluated) + 1,
                      fetches |-> Len(fetches),
                      dispatched |-> Len(dispatched)]>>
    /\ UNCHANGED <<config, stateFile, seen_map,
                   changed, sent, fi, entries, ei,
                   runNo, startFile, writes, fetches, dispatched, trims,
                   pastHist>>

\* Lines 74-75, 87 and 181-185: telegram_send raises, for missing
\* credentials or for a non-success response; nothing in main catches it,
\* and the process ends with the traceback and exit status 1.  The
\* environment is the same for the whole run and is read only here: the
\* credentials are missing exactly in the runs whose first delivery raises
\* for them, so the cause can be "credentials" only before any delivery.
SendFails ==
    /\ UNCHANGED pureVars
    /\ AtEntry
    /\ LET key == CurKey
       IN  /\ ~IsSeen(key, seen_hashes)
           /\ Passes(CurFeed, CurEntry)
           /\ evaluated' = Append(evaluated, Evaluation(key, TRUE))
    /\ \E cause \in {"credentials", "response"} :
          /\ cause = "credentials" => sent = 0
          /\ error' = cause
    /\ pc' = "exit" /\ outcome' = "error" /\ exitStatus' = 1
    /\ failedAt' = <<[evaluated |-> Len(evaluated) + 1,
                      fetches |-> Len(fetches),
                      dispatched |-> Len(dispatched)]>>
    /\ UNCHANGED <<config, stateFile, seen_map,
                   changed, sent, fi, entries, ei, seen_hashes, new_hashes,
                   runNo, startFile, writes, fetches, dispatched, trims,
                   pastHist>>

\* The state saved after every feed that added an identity.
FinishFeedAndSave ==
    /\ UNCHANGED pureVars
    /\ pc = "iter" /\ ei > Len(entries)
    /\ IF new_hashes # <<>>
       THEN \E t \in Trimmed(seen_hashes) :
               /\ seen_map' = Put(seen_map, CurUrl, t)
               /\ stateFile' = seen_map'
               /\ writes' = writes + 1
               /\ changed' = TRUE
               /\ trims' = Append(trims,
                              [feed |-> fi, url |-> CurUrl,
                               new |-> new_hashes,
                               before |-> seen_hashes, after |-> t])
       ELSE UNCHANGED <<seen_map, changed, trims, stateFile, writes>>
    /\ fi' = fi + 1
    /\ pc' = "feeds"
    /\ UNCHANGED <<config, outcome, error,
                   exitStatus, sent, entries, ei, seen_hashes, new_hashes,
                   runNo, startFile, fetches, evaluated, dispatched,
                   failedAt, pastHist>>

(***************************************************************************)
(* Lines 166-170: after the last entry of a feed the seen set is trimmed   *)
(* and stored in seen_map, if the feed added an identity.                  *)
(***************************************************************************)
FinishFeed ==
    /\ UNCHANGED pureVars
    /\ pc = "iter" /\ ei > Len(entries)
    /\ IF new_hashes # <<>>
       THEN \E t \in Trimmed(seen_hashes) :
               /\ seen_map' = Put(seen_map, CurUrl, t)
               /\ changed' = TRUE
               /\ trims' = Append(trims,
                              [feed |-> fi, url |-> CurUrl,
                               new |-> new_hashes,
                               before |-> seen_hashes, after |-> t])
       ELSE UNCHANGED <<seen_map, changed, trims>>
    /\ fi' = fi + 1
    /\ pc' = "feeds"
    /\ UNCHANGED <<config, stateFile, outcome, error,
                   exitStatus, sent, entries, ei, seen_hashes, new_hashes,
                   runNo, startFile, writes, fetches, evaluated, dispatched,
                   failedAt, pastHist>>

\* The state saved by every run that completes, changed or not.
FinishRunAlwaysSaves ==
    /\ UNCHANGED pureVars
    /\ pc = "feeds" /\ fi > Len(config)
    /\ stateFile' = seen_map /\ writes' = writes + 1
    /\ pc' = "exit" /\ outcome' = "done" /\ exitStatus' = 0
    /\ UNCHANGED <<config, error, seen_map, changed, sent, fi,
                   entries, ei, seen_hashes, new_hashes, runNo, startFile,
                   fetches, evaluated, dispatched, trims, failedAt, pastHist>>

(***************************************************************************)
(* Lines 172-177: after the last feed the state is saved if it changed,    *)
(* and main returns 0.                                                     *)
(***************************************************************************)
FinishRun ==
    /\ UNCHANGED pureVars
    /\ pc = "feeds" /\ fi > Len(config)
    /\ IF changed
       THEN stateFile' = seen_map /\ writes' = writes + 1
       ELSE UNCHANGED <<stateFile, writes>>
    /\ pc' = "exit" /\ outcome' = "done" /\ exitStatus' = 0
    /\ UNCHANGED <<config, error, seen_map, changed, sent, fi,
                   entries, ei, seen_hashes, new_hashes, runNo, startFile,
                   fetches, evaluated, dispatched, trims, failedAt, pastHist>>

Next ==
    \/ StartRun
    \/ SkipFeedWithoutUrl
    \/ FetchMalformed
    \/ FetchFeed
    \/ SkipSeen
    \/ FilterOut
    \/ SendMessage
    \/ SendFails
    \/ FinishFeed
    \/ FinishRun

Spec == Init /\ [][Next]_vars

(***************************************************************************)
(* A single application of make_entry_key or passes_filters to arguments   *)
(* of the sets above; no run of the process takes place.                   *)
(***************************************************************************)
FunctionInit ==
    /\ config = <<>>
    /\ stateFile = NoSeen
    /\ pc = "idle" /\ outcome = "none" /\ error = "none" /\ exitStatus = -1
    /\ seen_map = NoSeen /\ changed = FALSE /\ sent = 0
    /\ fi = 1 /\ entries = <<>> /\ ei = 1
    /\ seen_hashes = EmptySeen /\ new_hashes = <<>>
    /\ runNo = 0 /\ startFile = stateFile /\ writes = 0
    /\ fetches = <<>> /\ evaluated = <<>> /\ dispatched = <<>>
    /\ trims = <<>> /\ failedAt = <<>>
    /\ pastDispatched = {} /\ prevRejected = {} /\ prevOutcome = "none"
    /\ prevFetches = <<>>
    /\ \/ call \in KeyCalls
       \/ call \in FilterCalls
    /\ result = <<>>

\* key = make_entry_key(e), for the two entries of the call.
CallMakeEntryKey ==
    /\ call.fn = "make_entry_key"
    /\ result = <<>>
    /\ result' = <<make_entry_key(call.a), make_entry_key(call.b)>>
    /\ UNCHANGED <<call, codeVars, runHist, pastHist>>

\* passes_filters(title, summary, include_any, exclude_any)
CallPassesFilters ==
    /\ call.fn = "passes_filters"
    /\ result = <<>>
    /\ result' = <<passes_filters(call.title, call.summary,
                                  call.include_any, call.exclude_any)>>
    /\ UNCHANGED <<call, codeVars, runHist, pastHist>>

FunctionNext ==
    \/ CallMakeEntryKey
    \/ CallPassesFilters

FunctionSpec == FunctionInit /\ [][FunctionNext]_vars

(***************************************************************************)
(* Properties                                                              *)
(***************************************************************************)

\* The identities of a list of identities.
KeysOf(list) == { list[i] : i \in 1..Len(list) }

\* What the fetch for the k-th feed of the configuration returned.
Returned(k) ==
    LET i == CHOOSE j \in 1..Len(fetches) : fetches[j].feed = k
    IN  fetches[i].returned

\* The identities of the entries of the k-th feed that reached the filter.
EvaluatedKeys(k) ==
    { evaluated[i].key : i \in { j \in 1..Len(evaluated) : evaluated[j].feed = k } }

\* Every fetch of the run returned what the fetch for the same feed
\* returned in the previous run.
SameAsBefore ==
    /\ Len(fetches) <= Len(prevFetches)
    /\ \A i \in 1..Len(fetches) : fetches[i] = prevFetches[i]

\* C1: when a run has completed and the next run has the same configuration
\* and every URL returns what it returned before, the next run dispatches
\* no message and does not write the state file.
C1_SecondRunSilent ==
    (runNo >= 2 /\ prevOutcome = "done" /\ SameAsBefore)
        => (dispatched = <<>> /\ sent = 0 /\ writes = 0)

\* C2: an identity dispatched for a feed URL in one run is not dispatched
\* for that URL in a later run, aborted runs included.
C2_NeverDispatchedAgain ==
    \A i \in 1..Len(dispatched) :
        <<dispatched[i].url, dispatched[i].key>> \notin pastDispatched

\* C3: an unseen entry that fails the filter in a run that completes is in
\* the feed's persisted seen set after the run, and the next run neither
\* hands it to the filter nor dispatches it.
C3_RejectedStaysSeen ==
    /\ outcome = "done" =>
          \A r \in Rejected(evaluated) : r[2] \in SeenOf(stateFile, r[1]).keys
    /\ \A i \in 1..Len(evaluated) :
          <<evaluated[i].url, evaluated[i].key>> \notin prevRejected

\* A trim of the run after which the same URL was not trimmed again.
LastTrimOfUrl(i) ==
    \A j \in (i + 1)..Len(trims) : trims[j].url # trims[i].url

\* C4: whenever a feed's seen set is trimmed, the set stored for the URL has
\* at most 400 identities, whatever was loaded and however many were added.
C4_TrimmedAtMost400 ==
    \A i \in 1..Len(trims) :
        /\ Size(trims[i].after) <= 400
        /\ LastTrimOfUrl(i) =>
              /\ trims[i].url \in DOMAIN seen_map
              /\ seen_map[trims[i].url] = trims[i].after

\* A trim of a set of more than 402 identities: 400 loaded, 3 added.
C4_Witness ==
    \E i \in 1..Len(trims) :
        /\ Size(trims[i].before) > 402
        /\ Len(trims[i].new) = 3
        /\ seen_map[trims[i].url] = trims[i].after

\* C5: when a trim evicts, the evicted identities are the oldest by
\* insertion: an identity added in this run is evicted only if no identity
\* that was loaded is kept.
C5_OldestEvictedFirst ==
    \A i \in 1..Len(trims) :
        Size(trims[i].before) > TrimLimit =>
            \/ KeysOf(trims[i].new) \subseteq trims[i].after.keys
            \/ /\ trims[i].after.old = 0
               /\ trims[i].after.keys \subseteq KeysOf(trims[i].new)

\* C6: of a feed with max_items = m >= 0 that returns n entries only the
\* first min(m, n) are gone through, in the order given: nothing at a later
\* position is evaluated, dispatched or added to the seen set.
C6_OnlyFirstMaxItems ==
    /\ \A i \in 1..Len(evaluated) :
          LET e   == evaluated[i]
              all == Returned(e.feed)
          IN  /\ e.pos <= FeedMaxItems(config[e.feed])
              /\ e.pos <= Len(all)
              /\ e.key = make_entry_key(all[e.pos])
    /\ \A i \in 1..Len(dispatched) :
          \E j \in 1..Len(evaluated) :
              /\ evaluated[j].feed = dispatched[i].feed
              /\ evaluated[j].pos = dispatched[i].pos
              /\ evaluated[j].key = dispatched[i].key
    /\ \A i \in 1..Len(trims) :
          KeysOf(trims[i].new) \subseteq EvaluatedKeys(trims[i].feed)
    /\ pc = "iter" =>
          /\ KeysOf(new_hashes) \subseteq EvaluatedKeys(fi)
          /\ ei <= FeedMaxItems(CurFeed) + 1
          /\ Len(entries) <= FeedMaxItems(CurFeed)
          /\ \A j \in 1..Len(entries) : entries[j] = Returned(fi)[j]

\* A feed with max_items = 2 was gone through to its end; its URL returned
\* three entries, and the third, which passes the feed's filter, is unseen.
C6_Witness ==
    \E i \in 1..Len(fetches) :
        LET f   == config[fetches[i].feed]
            all == fetches[i].returned
        IN  /\ ~fetches[i].bozo
            /\ fetches[i].feed < fi
            /\ FeedMaxItems(f) = 2 /\ Len(all) = 3
            /\ Passes(f, all[3])
            /\ ~IsSeen(make_entry_key(all[3]), SeenOf(seen_map, fetches[i].url))
            /\ \E d \in 1..Len(dispatched) : dispatched[d].feed = fetches[i].feed

\* The trims of the run that stored a seen set for the URL.
TrimsOfUrl(url) == { j \in 1..Len(trims) : trims[j].url = url }

\* C7: a feed whose fetch is flagged malformed has no entry evaluated, no
\* message dispatched and no seen set stored; the seen set of its URL is as
\* loaded, or as another feed with the same URL stored it, and a run in
\* which every fetch is malformed does not write the state file.
C7_MalformedFeedUntouched ==
    /\ \A i \in 1..Len(fetches) :
          fetches[i].bozo =>
             LET u == fetches[i].url
             IN  /\ \A j \in 1..Len(evaluated) : evaluated[j].feed # fetches[i].feed
                 /\ \A j \in 1..Len(dispatched) : dispatched[j].feed # fetches[i].feed
                 /\ \A j \in 1..Len(trims) : trims[j].feed # fetches[i].feed
                 /\ IF TrimsOfUrl(u) = {}
                    THEN /\ SeenOf(seen_map, u) = SeenOf(startFile, u)
                         /\ SeenOf(stateFile, u) = SeenOf(startFile, u)
                    ELSE \E j \in TrimsOfUrl(u) :
                            /\ \A k \in TrimsOfUrl(u) : k <= j
                            /\ seen_map[u] = trims[j].after
    /\ (fetches # <<>> /\ \A i \in 1..Len(fetches) : fetches[i].bozo) =>
          ~changed /\ writes = 0 /\ stateFile = startFile

\* A completed run that wrote the state file, with a malformed feed whose
\* entries hold one that is unseen and passes the feed's filter.
C7_Witness ==
    /\ outcome = "done" /\ writes = 1
    /\ \E i \in 1..Len(fetches) :
          LET f == config[fetches[i].feed]
              es == SlicePrefix(fetches[i].returned, FeedMaxItems(f))
          IN  /\ fetches[i].bozo
              /\ \E j \in 1..Len(es) :
                    /\ Passes(f, es[j])
                    /\ ~IsSeen(make_entry_key(es[j]),
                               SeenOf(startFile, fetches[i].url))

\* The step fetches a feed and the result is flagged malformed.
MalformedFetch ==
    /\ Len(fetches') = Len(fetches) + 1
    /\ fetches'[Len(fetches')].bozo

\* Every configured feed that has a URL was fetched.
AllFeedsFetched ==
    \A k \in 1..Len(config) :
        FeedUrl(config[k]) # <<>> =>
            \E i \in 1..Len(fetches) : fetches[i].feed = k

\* C8: a malformed fetch is isolated: the step that passes over the feed
\* changes nothing but the position in the list of feeds, so what follows is
\* what a run without that feed does, and a run without delivery failure
\* ends only after every feed with a URL was fetched.
C8_MalformedIsolated ==
    [][ /\ MalformedFetch =>
             /\ fi' = fi + 1 /\ pc' = "feeds"
             /\ UNCHANGED <<config, stateFile, outcome, error,
                            exitStatus, seen_map, changed, sent, writes,
                            evaluated, dispatched, trims>>
        /\ outcome' = "done" => AllFeedsFetched'
      ]_vars

\* After a malformed fetch a later feed was fetched and a message of it
\* dispatched.
C8_Witness ==
    \E i \in 1..Len(fetches), d \in 1..Len(dispatched) :
        /\ fetches[i].bozo
        /\ dispatched[d].feed > fetches[i].feed
        /\ dispatched[d].url # fetches[i].url

\* C9: when a dispatch fails, the state file after the run is the state
\* file the run started with; no seen set is written, not even that of a
\* feed that was finished before the failure.
C9_FailureSavesNothing ==
    outcome = "error" => (stateFile = startFile /\ writes = 0)

\* A run failed after an earlier feed had stored new identities in memory.
C9_Witness ==
    /\ outcome = "error"
    /\ changed /\ trims # <<>>
    /\ seen_map # stateFile

\* C10: after the first failed dispatch nothing more is evaluated,
\* dispatched or fetched, the delivery is not tried again, and the run has
\* ended in failure with a non-zero exit status.
C10_FailureEndsRun ==
    /\ outcome = "error" <=> failedAt # <<>>
    /\ failedAt # <<>> =>
          /\ pc = "exit" /\ exitStatus > 0
          /\ error \in {"credentials", "response"}
          /\ Len(evaluated) = failedAt[1].evaluated
          /\ Len(fetches) = failedAt[1].fetches
          /\ Len(dispatched) = failedAt[1].dispatched
          /\ sent = Len(dispatched)
          /\ \A d \in 1..Len(dispatched) :
                ~(/\ dispatched[d].feed = evaluated[Len(evaluated)].feed
                  /\ dispatched[d].pos = evaluated[Len(evaluated)].pos)

\* A run failed with entries of the feed and feeds of the list still to come.
C10_Witness ==
    /\ failedAt # <<>>
    /\ ei < Len(entries)
    /\ fi < Len(config)
    /\ FeedUrl(config[fi + 1]) # <<>>

(***************************************************************************)
(* C11: the state file is written at most once per run and only at the     *)
(* end of the run                                                          *)
(***************************************************************************)

\* Some feed of the run added an identity: a feed that finished stored its
\* seen set (line 166), or the feed in progress has marked an entry seen.
AddedInRun == trims # <<>> \/ new_hashes # <<>>

\* C11 as stated: in every run the state file is written at most once, only
\* after the loop over the feeds has ended, and a run that has ended wrote
\* it if and only if some feed added an identity in that run.
C11_WrittenIffAdded ==
    /\ writes <= 1
    /\ writes = 1 => pc = "exit" /\ fi > Len(config)
    /\ pc = "exit" => (writes = 1 <=> AddedInRun)

\* C11, amended: in every run the state file is written at most once, only
\* after the loop over the feeds has ended, and a run that has ended wrote
\* it if and only if it completed without a delivery failure and some feed
\* added an identity in that run; a run ended by a delivery failure writes
\* nothing.
C11_WrittenIffAddedAndCompleted ==
    /\ writes <= 1
    /\ writes = 1 => pc = "exit" /\ fi > Len(config)
    /\ pc = "exit" => (writes = 1 <=> (outcome = "done" /\ AddedInRun))

\* A run completed in which a feed was flagged malformed and another feed
\* added identities: the state file was written once and its content changed.
C11_Witness ==
    /\ outcome = "done"
    /\ writes = 1
    /\ trims # <<>>
    /\ stateFile # startFile
    /\ \E i \in 1..Len(fetches) : fetches[i].bozo

(***************************************************************************)
(* C16: the exit status                                                    *)
(***************************************************************************)

\* C16: a run with no configured feed fetches nothing, dispatches nothing,
\* writes no state and ends with a non-zero exit status; a run with a
\* configured feed that has ended without a delivery failure ended with
\* exit status zero.
C16_ExitStatus ==
    /\ (runNo > 0 /\ config = <<>>) =>
          /\ pc = "exit"
          /\ exitStatus > 0
          /\ fetches = <<>> /\ dispatched = <<>>
          /\ writes = 0 /\ stateFile = startFile
    /\ (pc = "exit" /\ config # <<>> /\ failedAt = <<>>) => exitStatus = 0

\* A run without configured feeds has ended, over a state file that holds
\* seen sets.
C16_Witness ==
    /\ pc = "exit"
    /\ config = <<>>
    /\ exitStatus = 1
    /\ stateFile = FullSeen

(***************************************************************************)
(* C17: seen sets are scoped per feed URL                                  *)
(***************************************************************************)

\* The identities stored under url in the map m.
StoredKeys(m, url) == IF url \in DOMAIN m THEN m[url].keys ELSE {}

\* C17: a step of the processing of a feed with URL u leaves the seen set
\* of every other URL as it was, and an entry whose identity is neither
\* stored under u nor added by this feed is evaluated by the filter,
\* whatever the seen sets of the other URLs hold.
C17_SeenSetsPerUrl ==
    [][ (pc \in {"feeds", "iter"} /\ fi <= Len(config)) =>
          /\ \A v \in (DOMAIN seen_map \cup DOMAIN seen_map') \ {CurUrl} :
                /\ v \in DOMAIN seen_map /\ v \in DOMAIN seen_map'
                /\ seen_map'[v] = seen_map[v]
          /\ (AtEntry /\ CurKey \notin StoredKeys(seen_map, CurUrl)
                                          \cup KeysOf(new_hashes)) =>
                /\ Len(evaluated') = Len(evaluated) + 1
                /\ evaluated'[Len(evaluated')].key = CurKey
                /\ evaluated'[Len(evaluated')].url = CurUrl ]_vars

\* An identity was dispatched for one URL, stored in that URL's seen set,
\* and then dispatched for another URL in the same run.
C17_Witness ==
    \E i, j \in 1..Len(dispatched) :
        /\ dispatched[i].feed < dispatched[j].feed
        /\ dispatched[i].url # dispatched[j].url
        /\ dispatched[i].key = dispatched[j].key
        /\ dispatched[i].key \in StoredKeys(seen_map, dispatched[i].url)
        /\ dispatched[j].key \notin StoredKeys(startFile, dispatched[j].url)

(***************************************************************************)
(* C18: an identity that occurs twice in one fetch                         *)
(***************************************************************************)

\* C18: within one feed of one run no identity is evaluated by the filter
\* twice and no identity is dispatched twice; every entry before the
\* current one has its identity in the feed's seen set, so that a later
\* occurrence is passed over as seen.
C18_FirstOccurrenceOnly ==
    /\ \A i, j \in 1..Len(evaluated) :
          (i < j /\ evaluated[i].feed = evaluated[j].feed) =>
              /\ evaluated[i].key # evaluated[j].key
              /\ evaluated[i].pos < evaluated[j].pos
    /\ \A i, j \in 1..Len(dispatched) :
          (i < j /\ dispatched[i].feed = dispatched[j].feed) =>
              dispatched[i].key # dispatched[j].key
    /\ pc = "iter" =>
          \A p \in 1..(ei - 1) :
              make_entry_key(entries[p]) \in seen_hashes.keys

\* A feed whose fetch returned the same identity at the second and the third
\* place, both within max_items, evaluated the second place and has finished.
C18_Witness ==
    \E i \in 1..Len(evaluated) :
        LET r == evaluated[i]
        IN  /\ r.pos = 2
            /\ r.key = make_entry_key(EntryA)
            /\ Len(Returned(r.feed)) = 3
            /\ make_entry_key(Returned(r.feed)[3]) = r.key
            /\ FeedMaxItems(config[r.feed]) >= 3
            /\ fi > r.feed

(***************************************************************************)
(* C19: marked seen only after the filter rejected or the message was sent *)
(***************************************************************************)

\* The entry of feed k with identity key was rejected by the filter or its
\* message was delivered.
Settled(k, key) ==
    \E i \in 1..Len(evaluated) :
        /\ evaluated[i].feed = k
        /\ evaluated[i].key = key
        /\ \/ ~evaluated[i].pass
           \/ \E d \in 1..Len(dispatched) :
                 /\ dispatched[d].feed = k
                 /\ dispatched[d].pos = evaluated[i].pos
                 /\ dispatched[d].key = key

\* C19: every identity a feed added to its seen set in the run belongs to
\* an entry that the filter rejected or whose message was delivered, and
\* the entry whose delivery failed is not in the seen set.
C19_SeenOnlyWhenSettled ==
    /\ \A t \in 1..Len(trims) :
          \A n \in 1..Len(trims[t].new) : Settled(trims[t].feed, trims[t].new[n])
    /\ (pc = "iter" \/ outcome = "error") =>
          \A n \in 1..Len(new_hashes) : Settled(fi, new_hashes[n])
    /\ failedAt # <<>> =>
          LET r == evaluated[failedAt[1].evaluated]
          IN  /\ r.pass
              /\ r.key \notin KeysOf(new_hashes)
              /\ r.key \notin seen_hashes.keys
              /\ r.key \notin StoredKeys(seen_map, r.url)
                                 \ StoredKeys(startFile, r.url)

\* A delivery failed in a feed that had already marked an entry seen.
C19_Witness ==
    /\ failedAt # <<>>
    /\ new_hashes # <<>>
    /\ \E i \in 1..Len(evaluated) :
          evaluated[i].feed = fi /\ ~evaluated[i].pass

(***************************************************************************)
(* C20: below the limit nothing is lost                                    *)
(***************************************************************************)

\* The identities the feeds with this URL added in the run.
NewKeys(url) ==
    UNION { KeysOf(trims[i].new) :
              i \in { j \in 1..Len(trims) : trims[j].url = url } }

\* C20: after a completed run in which the feeds of a URL added identities,
\* if the identities stored for the URL before the run and the added ones
\* are at most 400 together, the set stored for the URL is exactly their
\* union.
C20_UnionStored ==
    outcome = "done" =>
        \A u \in Urls :
            LET before == SeenOf(startFile, u)
                union == [keys |-> before.keys \cup NewKeys(u),
                          old |-> before.old]
            IN  (NewKeys(u) # {} /\ Size(union) <= TrimLimit) =>
                    /\ u \in DOMAIN stateFile
                    /\ stateFile[u] = union

\* A completed run added an identity to a seen set that an earlier run had
\* stored, and the union is below the limit.
C20_Witness ==
    /\ outcome = "done"
    /\ \E u \in Urls :
          /\ NewKeys(u) # {}
          /\ StoredKeys(startFile, u) # {}
          /\ NewKeys(u) \cap StoredKeys(startFile, u) = {}
          /\ Size(SeenOf(startFile, u)) + Cardinality(NewKeys(u)) <= TrimLimit
          /\ Size(SeenOf(startFile, u)) + Cardinality(NewKeys(u)) >= 3

(***************************************************************************)
(* C12, C13: the identity of an entry                                      *)
(***************************************************************************)

\* The six fields the identity is computed from (lines 39-46).
IdentityFields ==
    {IdKey, GuidKey, LinkKey, TitleKey, PublishedKey, UpdatedKey}

\* The six identity fields of an entry, a missing field being empty.
TupleOf(e) == [k \in IdentityFields |-> Get(e, k, <<>>)]

AllSixEmpty(e) == \A k \in IdentityFields : Get(e, k, <<>>) = <<>>

\* The identity the fallback of lines 48-49 gives: the hash of the first
\* 500 characters of the serialized entry.
FallbackKey(e) == Sha256Hex(SlicePrefix(JsonDumps(e), FallbackPrefixLen))

\* make_entry_key has been applied to the two entries of the call.
KeysComputed == call.fn = "make_entry_key" /\ result # <<>>

\* C12: two entries whose six identity fields are all empty or absent and
\* whose full content differs get the identities of the fallback path, the
\* hash of the serialized entry, and these differ.
C12_FallbackSeparates ==
    (KeysComputed /\ AllSixEmpty(call.a) /\ AllSixEmpty(call.b)
       /\ JsonDumps(call.a) # JsonDumps(call.b)) =>
        /\ result[1] = FallbackKey(call.a)
        /\ result[2] = FallbackKey(call.b)
        /\ result[1] # result[2]

\* C13: two entries get the same identity if and only if their six-field
\* tuples are equal (the hash being injective on its input).
C13_IdentityInjective ==
    KeysComputed => ((result[1] = result[2]) <=> (TupleOf(call.a) = TupleOf(call.b)))

(***************************************************************************)
(* C14, C15: the keyword filter                                            *)
(***************************************************************************)

\* The normalized title and summary, one space between them.
Haystack(c) == norm(c.title) \o <<32>> \o norm(c.summary)

\* The keyword is non-empty after normalization and occurs in hay.
Matches(kw, hay) ==
    /\ norm(kw) # <<>>
    /\ \E i \in 1..Len(hay) :
          \E j \in i..Len(hay) : SubSeq(hay, i, j) = norm(kw)

AnyMatches(list, hay) ==
    LET kws == OrEmptyList(list)
    IN  \E i \in 1..Len(kws) : Matches(kws[i], hay)

\* passes_filters has been applied to the arguments of the call.
FilterComputed == call.fn = "passes_filters" /\ result # <<>>

\* C14: if an exclude keyword that is non-empty after normalization occurs
\* in the normalized title and summary, the filter returns false, whatever
\* the include list is.
C14_ExcludeWins ==
    (FilterComputed /\ AnyMatches(call.exclude_any, Haystack(call))) =>
        result[1] = FALSE

\* An exclude keyword matches, an include keyword matches too, and the
\* filter returned false.
C14_Witness ==
    /\ FilterComputed
    /\ AnyMatches(call.exclude_any, Haystack(call))
    /\ AnyMatches(call.include_any, Haystack(call))
    /\ result = <<FALSE>>

\* C15: if no exclude keyword matches, the filter returns true for an empty
\* include list, and for a non-empty one it returns true if and only if an
\* include keyword that is non-empty after normalization occurs in the
\* normalized title and summary.
C15_IncludeDecides ==
    (FilterComputed /\ ~AnyMatches(call.exclude_any, Haystack(call))) =>
        result[1] = (\/ OrEmptyList(call.include_any) = <<>>
                     \/ AnyMatches(call.include_any, Haystack(call)))

\* The include list holds keywords and all of them are empty after
\* normalization; no exclude keyword matches; the filter returned false.
C15_Witness ==
    /\ FilterComputed
    /\ ~AnyMatches(call.exclude_any, Haystack(call))
    /\ call.include_any \notin {<<>>, NoneList}
    /\ \A i \in 1..Len(call.include_any) : norm(call.include_any[i]) = <<>>
    /\ norm(call.title) # <<>>
    /\ result = <<FALSE>>

=============================================================================
